---- MODULE Spec2Model ----
(***************************************************************************)
(* Model of python_solvers/akmax_solver.py: load_graph and run_solver.     *)
(*                                                                         *)
(* A graph file is a sequence of lines, a line a sequence of characters    *)
(* (one-character strings) ending in "\n".  Floats are modelled by exact   *)
(* integers: every weight the bounded alphabet can spell is a whole        *)
(* number, so sums and products are exact; the true division by 2 of       *)
(* line 69/84 is kept exact as a pair <<quotient, remainder>>.             *)
(***************************************************************************)
EXTENDS Integers, Sequences, FiniteSets, TLC

VARIABLES
    pc,           \* position of the current run_solver call
    args,         \* its arguments [N, k, seed, weighted]
    graphs,       \* the graph files on disk: path -> text (never written)
    text,         \* the text load_graph read from the opened graph file
    G,            \* the nx.Graph returned by load_graph
    W,            \* total edge weight (line 40)
    bqm,          \* the dimod model (line 55)
    energy_data,  \* list(sampleset.data(...)) (line 64)
    report,       \* what the loop of lines 68-77 printed, one entry per sample
    error,        \* the exception that ended the run, None while there is none
    fs,           \* the files of the output directory: path -> content
    last_run,     \* history: per argument list, what the most recent run
                  \* that returned normally got from the solver
    last_saved    \* history: per argument list, what the most recent run
                  \* that returned normally with a non-empty sample list
                  \* had computed

vars == <<pc, args, graphs, text, G, W, bqm, energy_data, report, error, fs,
          last_run, last_saved>>

----------------------------------------------------------------------------
(* Bounds of the explored inputs.                                          *)

MaxLines == 2     \* lines per graph file
MaxFields == 4    \* comma-separated fields per line
MaxSamples == 2   \* samples the solver returns, in a single run
RunSamples == 1   \* samples the solver returns, in a sequence of runs

(* Program constants of the batch driver.                                  *)
N_main == 10
k_main == 3
seed_first == 2
seed_stop == 3

Seeds == seed_first .. (seed_stop - 1)

None == "None"

----------------------------------------------------------------------------
(* Text of the graph files.                                                *)

\* The fields a line is spelled with: two decimal numerals and a word that
\* is no number.
Numerals == { <<"1">>, <<"1", "2">> }
Toks == Numerals \cup { <<"x">> }

RECURSIVE Join(_)
Join(fields) ==
    IF Len(fields) = 1 THEN fields[1]
    ELSE fields[1] \o <<",">> \o Join(Tail(fields))

MkLine(fields) == Join(fields) \o <<"\n">>

\* The field lists of a line: up to three fields spelled any way, and longer
\* lists of numerals, where only the number of fields is wrong.
FieldLists ==
    UNION { [1..n -> IF n <= 3 THEN Toks ELSE { <<"1">> }] : n \in 1..MaxFields }

Lines == { MkLine(f) : f \in FieldLists }

Files == UNION { [1..n -> Lines] : n \in 0..MaxLines }

----------------------------------------------------------------------------
(* str methods and conversions used by load_graph.                         *)

Whitespace == { " ", "\n", "\t", "\r" }

RECURSIVE LStrip(_)
LStrip(s) ==
    IF s # <<>> /\ Head(s) \in Whitespace THEN LStrip(Tail(s)) ELSE s

RECURSIVE RStrip(_)
RStrip(s) ==
    IF s # <<>> /\ s[Len(s)] \in Whitespace
    THEN RStrip(SubSeq(s, 1, Len(s) - 1))
    ELSE s

Strip(s) == RStrip(LStrip(s))

\* s.split(sep): the pieces between the separators, <<"">> for the empty string
RECURSIVE Split(_, _)
Split(s, sep) ==
    IF \A i \in 1..Len(s) : s[i] # sep THEN << s >>
    ELSE LET i == CHOOSE j \in 1..Len(s) :
                      s[j] = sep /\ \A h \in 1..(j - 1) : s[h] # sep
         IN  << SubSeq(s, 1, i - 1) >> \o Split(SubSeq(s, i + 1, Len(s)), sep)

DigitVal == [c \in {"0", "1", "2", "3", "4", "5", "6", "7", "8", "9"} |->
                CASE c = "0" -> 0 [] c = "1" -> 1 [] c = "2" -> 2
                  [] c = "3" -> 3 [] c = "4" -> 4 [] c = "5" -> 5
                  [] c = "6" -> 6 [] c = "7" -> 7 [] c = "8" -> 8
                  [] c = "9" -> 9]

IsNumeral(s) == s # <<>> /\ \A i \in 1..Len(s) : s[i] \in DOMAIN DigitVal

RECURSIVE NumeralVal(_)
NumeralVal(s) ==
    IF s = <<>> THEN 0
    ELSE 10 * NumeralVal(SubSeq(s, 1, Len(s) - 1)) + DigitVal[s[Len(s)]]

\* int(s) and float(s) on the strings the alphabet spells: [ok |-> TRUE]
\* with the value of a decimal numeral, [ok |-> FALSE] where Python raises
\* ValueError
int(s) ==
    IF IsNumeral(s) THEN [ok |-> TRUE, val |-> NumeralVal(s)]
    ELSE [ok |-> FALSE]

float(s) ==
    IF IsNumeral(s) THEN [ok |-> TRUE, val |-> NumeralVal(s)]
    ELSE [ok |-> FALSE]

----------------------------------------------------------------------------
(* load_graph.                                                             *)

\* nx.Graph(): node set and, per undirected edge {u, v}, its weight
EmptyGraph == [nodes |-> {}, weight |-> [e \in {} |-> 0]]

\* fault variant of add_edge: a repeated edge adds its weight to the one
\* already there
add_edge_accumulate(g, node1, node2, weight) ==
    LET e == {node1, node2}
    IN  [nodes  |-> g.nodes \cup e,
         weight |-> [d \in DOMAIN g.weight \cup {e} |->
                        IF d # e THEN g.weight[d]
                        ELSE IF e \in DOMAIN g.weight THEN g.weight[e] + weight
                        ELSE weight]]

\* G.add_edge(node1, node2, weight=weight)
add_edge(g, node1, node2, weight) ==
    LET e == {node1, node2}
    IN  [nodes  |-> g.nodes \cup e,
         weight |-> [d \in DOMAIN g.weight \cup {e} |->
                        IF d = e THEN weight ELSE g.weight[d]]]

\* fault variant of ParseLine: a weight that is no number counts as 1.0
\* in weighted mode too
ParseLine_default_weight(line, weighted) ==
    LET parts == Split(Strip(line), ",")
    IN  IF Len(parts) # 3 THEN [ok |-> FALSE]
        ELSE IF ~int(parts[2]).ok \/ ~int(parts[3]).ok THEN [ok |-> FALSE]
        ELSE [ok     |-> TRUE,
              node1  |-> int(parts[2]).val,
              node2  |-> int(parts[3]).val,
              weight |-> IF weighted /\ float(parts[1]).ok
                         THEN float(parts[1]).val ELSE 1]

\* the body of the for loop on one line: the edge it names, or
\* [ok |-> FALSE] where it raises ValueError
ParseLine(line, weighted) ==
    LET parts == Split(Strip(line), ",")
    IN  IF Len(parts) # 3 THEN [ok |-> FALSE]
        ELSE IF ~int(parts[2]).ok \/ ~int(parts[3]).ok THEN [ok |-> FALSE]
        ELSE IF weighted /\ ~float(parts[1]).ok THEN [ok |-> FALSE]
        ELSE [ok     |-> TRUE,
              node1  |-> int(parts[2]).val,
              node2  |-> int(parts[3]).val,
              weight |-> IF weighted THEN float(parts[1]).val ELSE 1]

RECURSIVE LoadLines(_, _, _)
LoadLines(g, lines, weighted) ==
    IF lines = <<>> THEN [ok |-> TRUE, graph |-> g]
    ELSE LET r == ParseLine(Head(lines), weighted)
         IN  IF ~r.ok THEN [ok |-> FALSE]
             ELSE LoadLines(add_edge(g, r.node1, r.node2, r.weight),
                            Tail(lines), weighted)

\* load_graph on a file that exists: the graph, or [ok |-> FALSE] where a
\* line raises ValueError
load_graph(filetext, weighted) == LoadLines(EmptyGraph, filetext, weighted)

----------------------------------------------------------------------------
(* Paths and file contents of run_solver.                                  *)

graph_path(N, k) ==
    "/Users/guillermo.preisser/Projects/QiILS/graphs/"
        \o ToString(N) \o "/" \o ToString(k) \o "/"

filepath(N, k, seed) ==
    LET seedb == seed
    IN  graph_path(N, k) \o "graph_N" \o ToString(N) \o "_k" \o ToString(k)
            \o "_seed" \o ToString(seed) \o "_seedb" \o ToString(seedb)
            \o ".txt"

output_dir(N, k) ==
    "/Users/guillermo.preisser/Projects/QiILS/solutions/random_regular/"
        \o ToString(N) \o "/" \o ToString(k) \o "/"

sumweights_file(N, k, seed) ==
    LET seedb == seed
    IN  output_dir(N, k) \o "sumweights_N" \o ToString(N) \o "_k" \o ToString(k)
            \o "_seed" \o ToString(seed) \o "_seedb" \o ToString(seedb)
            \o ".txt"

weight_status(weighted) == IF weighted THEN "weighted" ELSE "unweighted"

\* fault variant of out_file: the name does not tell the two modes apart
out_file_no_status(N, k, seed, weighted) ==
    LET seedb == seed
    IN  output_dir(N, k) \o "akmaxdata_N" \o ToString(N) \o "_k" \o ToString(k)
            \o "_seed" \o ToString(seed) \o "_seedb" \o ToString(seedb)
            \o ".json"

out_file(N, k, seed, weighted) ==
    LET seedb == seed
    IN  output_dir(N, k) \o "akmaxdata_N" \o ToString(N) \o "_k" \o ToString(k)
            \o "_seed" \o ToString(seed) \o "_seedb" \o ToString(seedb)
            \o "_" \o weight_status(weighted) \o ".json"

\* open(path, "w") followed by a write: the file is created or replaced
WriteFile(files, path, content) ==
    [q \in DOMAIN files \cup {path} |->
        IF q = path THEN content ELSE files[q]]

RECURSIVE Numeral(_)
Numeral(n) ==
    LET d == CHOOSE c \in DOMAIN DigitVal : DigitVal[c] = n % 10
    IN  IF n < 10 THEN << d >> ELSE Numeral(n \div 10) \o << d >>

\* str(W): W is the int 0 when the graph has no edge (sum of nothing), a
\* float otherwise; the weights are whole and not negative
str_W(g, w) ==
    IF DOMAIN g.weight = {} THEN Numeral(w)
    ELSE Numeral(w) \o <<".", "0">>

----------------------------------------------------------------------------
(* The computations of run_solver.                                         *)

RECURSIVE SumOver(_, _)
SumOver(f, dom) ==
    IF dom = {} THEN 0
    ELSE LET x == CHOOSE y \in dom : TRUE
         IN  f[x] + SumOver(f, dom \ {x})

\* sum(d['weight'] for _, _, d in G.edges(data=True))
TotalWeight(g) == SumOver(g.weight, DOMAIN g.weight)

\* lines 51-57: a SPIN model with one variable per node, no linear bias
\* and one coupling per edge, the edge's weight
from_networkx_graph(g) ==
    [variables |-> g.nodes,
     linear    |-> [v \in g.nodes |-> 0],
     quadratic |-> [e \in DOMAIN g.weight |-> g.weight[e]]]

EmptyModel == from_networkx_graph(EmptyGraph)

\* x / 2 of a whole x, exactly: <<q, r>> stands for q + r/2
DivBy2(x) == << x \div 2, x % 2 >>

\* fault variant of cut_value: the sign of the energy is wrong
cut_value_plus(w, E) == DivBy2(w + E)

\* (W - E) / 2
cut_value(w, E) == DivBy2(w - E)

S0_of(sample) == { node \in DOMAIN sample : sample[node] = -1 }

\* fault variant of S1_of: the test of S0 copied unchanged
S1_of_copied(sample) == { node \in DOMAIN sample : sample[node] = -1 }

S1_of(sample) == { node \in DOMAIN sample : sample[node] = 1 }

\* the body of the loop of lines 68-77 for one (sample, E)
CutResult(w, entry) ==
    [S0        |-> S0_of(entry.sample),
     S1        |-> S1_of(entry.sample),
     energy    |-> entry.energy,
     cut_value |-> cut_value(w, entry.energy)]

\* fault variant of first_energy: the last row is taken
last_energy(data) == data[Len(data)].energy

first_energy(data) == data[1].energy

savedict(a, w, data) ==
    [N            |-> a.N,
     k            |-> a.k,
     seed         |-> a.seed,
     weighted     |-> a.weighted,
     W            |-> w,
     ising_energy |-> first_energy(data),
     maxcut_value |-> cut_value(w, first_energy(data)),
     method       |-> "AKMaxSAT"]

----------------------------------------------------------------------------
(* The external solver.                                                    *)

\* the values of a SPIN variable, and the values a returned sample may give
\* a variable when the solver breaks the contract: the two spins and one
\* value outside the spin domain
Spins == { -1, 1 }
AnyVals == Spins \cup { 0 }

\* product of the values at the endpoints of an edge (a loop has one)
SpinProduct(sample, e) ==
    LET u == CHOOSE x \in e : TRUE
        v == CHOOSE y \in e : e = {u, y}
    IN  sample[u] * sample[v]

\* energy of an assignment under the model
IsingEnergy(b, sample) ==
    LET term == [e \in DOMAIN b.quadratic |->
                    b.quadratic[e] * SpinProduct(sample, e)]
    IN  SumOver(term, DOMAIN b.quadratic) + SumOver(b.linear, b.variables)

\* what list(sampleset.data(...)) may hold after solver.sample(bqm): at
\* most n (sample, energy) rows over the model's variables with values in
\* vals, each with its energy under the model.  The order of the rows is
\* left open: the code relies on the libraries for it.
SolverOutputs(b, n, vals) ==
    LET rows == { [sample |-> s, energy |-> IsingEnergy(b, s)] :
                    s \in [b.variables -> vals] }
    IN  UNION { [1..m -> rows] : m \in 0..n }

----------------------------------------------------------------------------
(* run_solver, step by step.                                               *)

NoFiles == [q \in {} |-> None]
NoRuns == [a \in {} |-> None]

Locals ==
    /\ text = <<>>
    /\ G = EmptyGraph
    /\ W = 0
    /\ bqm = EmptyModel
    /\ energy_data = <<>>
    /\ report = <<>>
    /\ error = None

GraphPaths == { filepath(N_main, k_main, seed) : seed \in Seeds }

\* a graph directory: some of the graph files exist, each with a text of
\* texts
GraphDirs(texts) ==
    UNION { [D -> texts] : D \in SUBSET GraphPaths }

InitWith(texts) ==
    /\ graphs \in GraphDirs(texts)
    /\ pc = "idle"
    /\ args = [N |-> N_main, k |-> k_main, seed |-> seed_first,
               weighted |-> TRUE]
    /\ Locals
    /\ fs = NoFiles
    /\ last_run = NoRuns
    /\ last_saved = NoRuns

Init == InitWith(Files)

\* run_solver(N, k, seed, weighted) is called: lines 24-34 build the paths
\* and make the output directory, no file is touched
Call(seed, weighted) ==
    /\ pc = "idle"
    /\ args' = [N |-> N_main, k |-> k_main, seed |-> seed,
                weighted |-> weighted]
    /\ pc' = "load"
    /\ UNCHANGED <<graphs, text, G, W, bqm, energy_data, report, error, fs,
                   last_run, last_saved>>

\* line 37 when the graph file exists: it is read and parsed
Load ==
    /\ pc = "load"
    /\ filepath(args.N, args.k, args.seed) \in DOMAIN graphs
    /\ LET f == graphs[filepath(args.N, args.k, args.seed)]
           r == load_graph(f, args.weighted)
       IN  /\ text' = f
           /\ IF r.ok
              THEN /\ G' = r.graph
                   /\ pc' = "sum"
                   /\ error' = error
              ELSE /\ G' = G
                   /\ pc' = "failed"
                   /\ error' = "ValueError"
    /\ UNCHANGED <<args, graphs, W, bqm, energy_data, report, fs,
                   last_run, last_saved>>

\* line 37 when the graph file does not exist: open() raises
LoadMissing ==
    /\ pc = "load"
    /\ filepath(args.N, args.k, args.seed) \notin DOMAIN graphs
    /\ pc' = "failed"
    /\ error' = "FileNotFoundError"
    /\ UNCHANGED <<args, graphs, text, G, W, bqm, energy_data, report, fs,
                   last_run, last_saved>>

\* fault variant of SaveW: W is summed but not written
SaveW_unwritten ==
    /\ pc = "sum"
    /\ W' = TotalWeight(G)
    /\ pc' = "build"
    /\ UNCHANGED <<args, graphs, text, G, bqm, energy_data, report, error, fs,
                   last_run, last_saved>>

\* lines 40-48: W is summed and written to the sumweights file
SaveW ==
    /\ pc = "sum"
    /\ W' = TotalWeight(G)
    /\ fs' = WriteFile(fs, sumweights_file(args.N, args.k, args.seed),
                       str_W(G, W') \o <<"\n">>)
    /\ pc' = "build"
    /\ UNCHANGED <<args, graphs, text, G, bqm, energy_data, report, error,
                   last_run, last_saved>>

\* lines 51-57
Build ==
    /\ pc = "build"
    /\ bqm' = from_networkx_graph(G)
    /\ pc' = "solve"
    /\ UNCHANGED <<args, graphs, text, G, W, energy_data, report, error, fs,
                   last_run, last_saved>>

\* lines 55-57 when the library rejects the graph and raises
BuildRaises ==
    /\ pc = "build"
    /\ pc' = "failed"
    /\ error' = "BuildError"
    /\ UNCHANGED <<args, graphs, text, G, W, bqm, energy_data, report, fs,
                   last_run, last_saved>>

\* lines 60-65: the solver returns at most n rows with values in vals
Solve(n, vals) ==
    /\ pc = "solve"
    /\ energy_data' \in SolverOutputs(bqm, n, vals)
    /\ pc' = "print"
    /\ UNCHANGED <<args, graphs, text, G, W, bqm, report, error, fs,
                   last_run, last_saved>>

\* fault variant of SolveRaises: the model is built and solved again
SolveRetries ==
    /\ pc = "solve"
    /\ pc' = "build"
    /\ error' = "SolverError"
    /\ UNCHANGED <<args, graphs, text, G, W, bqm, energy_data, report, fs,
                   last_run, last_saved>>

\* lines 60-61 when the solver raises
SolveRaises ==
    /\ pc = "solve"
    /\ pc' = "failed"
    /\ error' = "SolverError"
    /\ UNCHANGED <<args, graphs, text, G, W, bqm, energy_data, report, fs,
                   last_run, last_saved>>

\* lines 68-77: every sample is split into S0 and S1 and printed with its
\* energy and cut value
PrintSamples ==
    /\ pc = "print"
    /\ report' = [i \in 1..Len(energy_data) |-> CutResult(W, energy_data[i])]
    /\ pc' = "save"
    /\ UNCHANGED <<args, graphs, text, G, W, bqm, energy_data, error, fs,
                   last_run, last_saved>>

\* lines 82-109: the first sample is saved if there is one, and run_solver
\* returns
Persist ==
    /\ pc = "save"
    /\ IF energy_data # <<>>
       THEN /\ fs' = WriteFile(fs,
                        out_file(args.N, args.k, args.seed, args.weighted),
                        savedict(args, W, energy_data))
            /\ last_saved' = WriteFile(last_saved, args,
                                [W |-> W, energy |-> energy_data[1].energy])
       ELSE /\ fs' = fs
            /\ last_saved' = last_saved
    /\ last_run' = WriteFile(last_run, args, [samples |-> energy_data # <<>>])
    /\ pc' = "done"
    /\ UNCHANGED <<args, graphs, text, G, W, bqm, energy_data, report, error>>

\* the call is over (returned or raised) and its locals are gone; the files
\* stay
Exit ==
    /\ pc \in {"done", "failed"}
    /\ pc' = "idle"
    /\ text' = <<>>
    /\ G' = EmptyGraph
    /\ W' = 0
    /\ bqm' = EmptyModel
    /\ energy_data' = <<>>
    /\ report' = <<>>
    /\ error' = None
    /\ UNCHANGED <<args, graphs, fs, last_run, last_saved>>

----------------------------------------------------------------------------
(* One run over every graph file within the bounds, with a solver that     *)
(* keeps to the spin domain.                                               *)

Next ==
    \/ \E seed \in Seeds, weighted \in BOOLEAN : Call(seed, weighted)
    \/ Load
    \/ LoadMissing
    \/ SaveW
    \/ Build
    \/ BuildRaises
    \/ Solve(MaxSamples, Spins)
    \/ SolveRaises
    \/ PrintSamples
    \/ Persist

Spec == Init /\ [][Next]_vars

(* Any number of runs, one after the other, over a few graph files: no     *)
(* edge, and one edge 1-12 whose weight field is 1, 12 or x; the solver    *)
(* returns at most one row.                                                *)

RunFiles ==
    { <<>> } \cup { << MkLine(<< t, <<"1">>, <<"1", "2">> >>) >> : t \in Toks }

NextRuns ==
    \/ \E seed \in Seeds, weighted \in BOOLEAN : Call(seed, weighted)
    \/ Load
    \/ LoadMissing
    \/ SaveW
    \/ Build
    \/ BuildRaises
    \/ Solve(RunSamples, Spins)
    \/ SolveRaises
    \/ PrintSamples
    \/ Persist
    \/ Exit

InitRuns == InitWith(RunFiles)

SpecRuns == InitRuns /\ [][NextRuns]_vars

(* One run over the same few graph files, with a solver that may give a    *)
(* variable a value outside the spin domain.                               *)

NextAnyVals ==
    \/ \E seed \in Seeds, weighted \in BOOLEAN : Call(seed, weighted)
    \/ Load
    \/ LoadMissing
    \/ SaveW
    \/ Build
    \/ BuildRaises
    \/ Solve(MaxSamples, AnyVals)
    \/ SolveRaises
    \/ PrintSamples
    \/ Persist

SpecAnyVals == InitRuns /\ [][NextAnyVals]_vars

----------------------------------------------------------------------------
(* Vocabulary of the properties.                                           *)

\* the fields a line of a graph file was spelled with
LineFields(line) == CHOOSE f \in FieldLists : MkLine(f) = line

\* the numbers the numerals of the alphabet denote
TokVal == [t \in Numerals |-> IF t = <<"1">> THEN 1 ELSE 12]

\* a line that is not three fields weight,node1,node2 with numeric fields
Malformed(line) ==
    LET f == LineFields(line)
    IN  \/ Len(f) # 3
        \/ \E j \in 1..3 : f[j] \notin Numerals

\* the same, with the weight field looked at in weighted mode only
MalformedFor(line, weighted) ==
    LET f == LineFields(line)
    IN  \/ Len(f) # 3
        \/ f[2] \notin Numerals
        \/ f[3] \notin Numerals
        \/ (weighted /\ f[1] \notin Numerals)

RunPath == filepath(args.N, args.k, args.seed)
RunWFile == sumweights_file(args.N, args.k, args.seed)
RunOutFile == out_file(args.N, args.k, args.seed, args.weighted)

FileMissing == RunPath \notin DOMAIN graphs

\* line 37 has just been left: load_graph returned a graph, or the run
\* ended there
AfterLoad ==
    \/ pc = "sum"
    \/ pc = "failed" /\ error \in {"ValueError", "FileNotFoundError"}

\* load_graph has just returned a graph to the run
Loaded == pc = "sum"

\* the solver has returned to the run
Solved == pc \in {"print", "save", "done"}

SpinSample(sample) == \A v \in DOMAIN sample : sample[v] \in {-1, 1}

\* twice the number a pair <<q, r>> stands for
Twice(c) == 2 * c[1] + c[2]

\* the number a sumweights file holds
ReadW(chars) ==
    LET parts == Split(Strip(chars), ".")
    IN  NumeralVal(parts[1])

AllArgs == [N : {N_main}, k : {k_main}, seed : Seeds, weighted : BOOLEAN]

OutFileOf(a) == out_file(a.N, a.k, a.seed, a.weighted)
WFileOf(a) == sumweights_file(a.N, a.k, a.seed)

\* no run is under way: none was made yet, or the last one returned or
\* raised
Quiet == pc \in {"idle", "done", "failed"}

----------------------------------------------------------------------------
(* C1: for every loaded graph and every sample with all spins in {-1,+1}, *)
(* when the model has one coupling per edge equal to the edge weight and  *)
(* no linear bias and the sample's energy is the sum over the edges of    *)
(* weight * s_i * s_j, the cut value (W - energy)/2 that run_solver       *)
(* computes, W being the sum of the loaded edge weights, is the total     *)
(* weight of the edges with one endpoint in S0 and the other in S1.       *)

CrossingWeight(g, A, B) ==
    SumOver(g.weight, { e \in DOMAIN g.weight : e \cap A # {} /\ e \cap B # {} })

EdgeEnergy(g, sample) ==
    SumOver([e \in DOMAIN g.weight |-> g.weight[e] * SpinProduct(sample, e)],
            DOMAIN g.weight)

ModelAsBuilt ==
    /\ bqm.quadratic = G.weight
    /\ \A v \in bqm.variables : bqm.linear[v] = 0

C1_CutValueIsCutWeight ==
    pc \in {"save", "done"} =>
        \A i \in 1..Len(energy_data) :
            ( /\ SpinSample(energy_data[i].sample)
              /\ ModelAsBuilt
              /\ energy_data[i].energy = EdgeEnergy(G, energy_data[i].sample) )
            => report[i].cut_value =
                   << CrossingWeight(G, report[i].S0, report[i].S1), 0 >>

C1_Witness ==
    /\ pc = "save"
    /\ Cardinality(DOMAIN G.weight) = 2
    /\ \E i \in 1..Len(energy_data) :
          /\ SpinSample(energy_data[i].sample)
          /\ report[i].S0 # {}
          /\ report[i].S1 # {}
          /\ report[i].cut_value[1] > 0

(* C2: for every returned sample whose spins are all in {-1,+1}, the      *)
(* partitions S0 and S1 that run_solver extracts are disjoint and their   *)
(* union is the node set of the sample.                                   *)

C2_PartitionComplete ==
    pc \in {"save", "done"} =>
        \A i \in 1..Len(energy_data) :
            SpinSample(energy_data[i].sample) =>
                /\ report[i].S0 \cap report[i].S1 = {}
                /\ report[i].S0 \cup report[i].S1 = DOMAIN energy_data[i].sample

C2_Witness ==
    /\ pc = "save"
    /\ \E i \in 1..Len(energy_data) :
          /\ SpinSample(energy_data[i].sample)
          /\ report[i].S0 # {}
          /\ report[i].S1 # {}

(* C3: if a returned sample gives some node a value other than -1 or +1,  *)
(* the run ends in a fatal error: it does not return normally and no      *)
(* result record is written for it.                                       *)

OutOfDomain ==
    \E i \in 1..Len(energy_data) : ~SpinSample(energy_data[i].sample)

C3_DomainErrorIsFatal ==
    OutOfDomain => (pc # "done" /\ RunOutFile \notin DOMAIN fs)

(* C4: when the solver returns an empty sample sequence the run goes on   *)
(* without error, writes no result record, and the sumweights file is     *)
(* there, holding the total edge weight.                                  *)

C4_EmptyResult ==
    (Solved /\ energy_data = <<>>) =>
        /\ error = None
        /\ RunOutFile \notin DOMAIN fs
        /\ RunWFile \in DOMAIN fs
        /\ ReadW(fs[RunWFile]) = TotalWeight(G)

C4_Witness ==
    /\ pc = "done"
    /\ energy_data = <<>>
    /\ DOMAIN G.weight # {}
    /\ DOMAIN fs = {RunWFile}

(* C5: if the graph file is missing or one of its lines is malformed (not  *)
(* three comma-separated fields, or a non-numeric weight or node field,   *)
(* in weighted and unweighted mode alike), the run aborts with an error   *)
(* and has written neither the sumweights file nor the result record.     *)

C5_MalformedInputIsFatal ==
    ( /\ AfterLoad
      /\ \/ FileMissing
         \/ \E i \in 1..Len(graphs[RunPath]) : Malformed(graphs[RunPath][i]) )
    => ( /\ pc = "failed"
         /\ error \in {"ValueError", "FileNotFoundError"}
         /\ fs = NoFiles )

(* C5, amended: the same, where a non-numeric weight field makes a line   *)
(* malformed in weighted mode only (in unweighted mode the weight field   *)
(* is not looked at).                                                     *)

C5_MalformedInputIsFatal_Amended ==
    ( /\ AfterLoad
      /\ \/ FileMissing
         \/ \E i \in 1..Len(graphs[RunPath]) :
                MalformedFor(graphs[RunPath][i], args.weighted) )
    => ( /\ pc = "failed"
         /\ error \in {"ValueError", "FileNotFoundError"}
         /\ fs = NoFiles )

C5_Witness ==
    /\ pc = "failed"
    /\ error = "ValueError"
    /\ args.weighted
    /\ Len(text) = 2
    /\ ~Malformed(text[1])
    /\ Malformed(text[2])
    /\ ~MalformedFor(text[2], FALSE)

(* C6: for a well-formed edge file load_graph returns a graph whose edges *)
(* are exactly the unordered node pairs the file names; in weighted mode  *)
(* an edge carries the weight of the last line that names it (in either   *)
(* endpoint order), in unweighted mode every edge carries weight 1        *)
(* whatever the weight field says.                                        *)

NamedEdge(line) ==
    LET f == LineFields(line) IN { TokVal[f[2]], TokVal[f[3]] }

NamedWeight(line) == TokVal[LineFields(line)[1]]

LastNaming(lines, e) ==
    CHOOSE i \in 1..Len(lines) :
        /\ NamedEdge(lines[i]) = e
        /\ \A j \in (i + 1)..Len(lines) : NamedEdge(lines[j]) # e

C6_LoadRoundTrip ==
    /\ ( /\ AfterLoad
         /\ ~FileMissing
         /\ \A i \in 1..Len(graphs[RunPath]) : ~Malformed(graphs[RunPath][i]) )
       => Loaded
    /\ Loaded =>
        /\ DOMAIN G.weight = { NamedEdge(text[i]) : i \in 1..Len(text) }
        /\ \A e \in DOMAIN G.weight :
              G.weight[e] = IF args.weighted
                            THEN NamedWeight(text[LastNaming(text, e)])
                            ELSE 1

C6_Witness ==
    /\ pc = "sum"
    /\ args.weighted
    /\ Len(text) = 2
    /\ LineFields(text[1])[2] # LineFields(text[1])[3]
    /\ LineFields(text[2])[2] = LineFields(text[1])[3]
    /\ LineFields(text[2])[3] = LineFields(text[1])[2]
    /\ LineFields(text[1])[1] # LineFields(text[2])[1]

(* C7: when the solver returns a non-empty sample sequence, the result    *)
(* record holds the energy of the first sample as ising_energy and        *)
(* (W - that energy)/2 as maxcut_value, with the W the sumweights file    *)
(* holds; if the samples come lowest energy first, the recorded energy is *)
(* the least and the recorded cut value the greatest of all samples.      *)

LowestFirst ==
    \A i, j \in 1..Len(energy_data) :
        i < j => energy_data[i].energy <= energy_data[j].energy

C7_FirstSampleSaved ==
    (pc = "done" /\ energy_data # <<>>) =>
        /\ RunOutFile \in DOMAIN fs
        /\ LET rec == fs[RunOutFile]
           IN  /\ rec.ising_energy = energy_data[1].energy
               /\ Twice(rec.maxcut_value) = rec.W - energy_data[1].energy
               /\ rec.W = ReadW(fs[RunWFile])
               /\ LowestFirst =>
                    \A i \in 1..Len(energy_data) :
                        /\ rec.ising_energy <= energy_data[i].energy
                        /\ Twice(rec.maxcut_value) >= Twice(report[i].cut_value)

C7_Witness ==
    /\ pc = "done"
    /\ Len(energy_data) = 2
    /\ energy_data[1].energy < energy_data[2].energy
    /\ RunOutFile \in DOMAIN fs

(* C8: a run is a strict linear sequence Load, Build, Solve, Extract,     *)
(* Persist: every stage runs at most once, none starts before the one     *)
(* before it finished, no file is written before the Persist stage, the   *)
(* only branch is results or no results at persistence, and a failure     *)
(* ends the run with no later stage executed.                             *)

Rank == [p \in {"idle", "load", "sum", "build", "solve", "print", "save",
                "done"} |->
            CASE p = "idle" -> 0 [] p = "load" -> 1 [] p = "sum" -> 2
              [] p = "build" -> 3 [] p = "solve" -> 4 [] p = "print" -> 5
              [] p = "save" -> 6 [] p = "done" -> 7]

\* a step leaves a stage that has not ended the run, for the next stage or
\* for the failure of a stage up to the solver call
StageOrder ==
    /\ pc \notin {"done", "failed"}
    /\ \/ pc' = "failed" /\ pc \in {"load", "build", "solve"}
       \/ pc' # "failed" /\ Rank[pc'] = Rank[pc] + 1

WFiles == { WFileOf(a) : a \in AllArgs }

Restrict(f, S) == [q \in DOMAIN f \cap S |-> f[q]]

BranchAtPersist ==
    pc = "save" => (RunOutFile \in DOMAIN fs' <=> energy_data # <<>>)

C8_LinearPipeline ==
    [][ /\ StageOrder
        /\ fs' # fs => pc = "save"
        /\ BranchAtPersist ]_vars

(* C8, amended: the same, except that the sumweights file is written      *)
(* right after Load, before the model is built and the solver is called;  *)
(* the result record is written in the Persist stage only.                *)

C8_LinearPipeline_Amended ==
    [][ /\ StageOrder
        /\ Restrict(fs', WFiles) # Restrict(fs, WFiles) => pc = "sum"
        /\ pc = "sum" => RunWFile \in DOMAIN fs'
        /\ Restrict(fs', DOMAIN fs' \ WFiles) # Restrict(fs, DOMAIN fs \ WFiles)
              => pc = "save"
        /\ BranchAtPersist ]_vars

C8_Witness ==
    /\ pc = "failed"
    /\ error = "BuildError"
    /\ DOMAIN fs = {RunWFile}

(* C9: after any sequence of completed runs, every result record on disk  *)
(* carries a W equal to the value in the sumweights file for the same     *)
(* (N, k, seed).                                                          *)

C9_RecordMatchesWFile ==
    pc = "done" =>
        \A a \in AllArgs :
            OutFileOf(a) \in DOMAIN fs =>
                /\ WFileOf(a) \in DOMAIN fs
                /\ fs[OutFileOf(a)].W = ReadW(fs[WFileOf(a)])

(* C10: after any sequence of completed runs, a result record exists for  *)
(* (N, k, seed, weighted) only if the most recent run with those          *)
(* parameters got a non-empty sample sequence, and it holds that run's    *)
(* W, energy and cut value.                                               *)

HoldsRun(rec, run) ==
    /\ rec.W = run.W
    /\ rec.ising_energy = run.energy
    /\ Twice(rec.maxcut_value) = run.W - run.energy

C10_RecordIsLatestRun ==
    pc = "done" =>
        \A a \in AllArgs :
            OutFileOf(a) \in DOMAIN fs =>
                /\ a \in DOMAIN last_run
                /\ last_run[a].samples
                /\ HoldsRun(fs[OutFileOf(a)], last_saved[a])

(* C10, amended: a result record exists for (N, k, seed, weighted) only   *)
(* if some run with those parameters got a non-empty sample sequence, and *)
(* it holds the W, energy and cut value of the most recent such run; a    *)
(* later run that gets no sample leaves the record in place.              *)

C10_RecordIsLatestSavingRun ==
    Quiet =>
        \A a \in AllArgs :
            /\ OutFileOf(a) \in DOMAIN fs <=> a \in DOMAIN last_saved
            /\ OutFileOf(a) \in DOMAIN fs =>
                  HoldsRun(fs[OutFileOf(a)], last_saved[a])

C10_Witness ==
    /\ pc = "done"
    /\ RunOutFile \in DOMAIN fs
    /\ ~last_run[args].samples
    /\ \E a \in DOMAIN last_saved : a.weighted # args.weighted

====
